---- MODULE Spec2Model ----
(***************************************************************************)
(* A model of pyjnest/__init__.py: a Connection holding the last fetched   *)
(* status document, its header set and its three identity caches, and the  *)
(* User, Device and Structure views that read the document and post the    *)
(* fan-mode, target-temperature and away writes.                           *)
(*                                                                         *)
(* Python values are tagged pairs <<tag, payload>> so that values of       *)
(* different Python types are different values here too (1 is not True).   *)
(* Identifiers and attribute names are sequences of tokens: the prefix     *)
(* tests of the code (startswith) look at the first token.                 *)
(***************************************************************************)
EXTENDS Integers, Sequences, FiniteSets, TLC

\* The '$version' values of the shared and structure sections range over
\* 1..MaxVersion.
MaxVersion == 2

\* ------------------------------------------------------------ Python values

PyStr(s) == <<"str", s>>
PyInt(n) == <<"int", n>>
PyBool(b) == <<"bool", b>>
PyNone == <<"none", "none">>
PyObj(class, id, serial) == <<"obj", [class |-> class, id |-> id, serial |-> serial]>>

\* An empty dict.
EmptyDict == [k \in {} |-> PyNone]

\* isinstance(value, bool): an int is not a bool.
IsBool(value) == value[1] = "bool"

\* Python's `not value` on the values the model holds.
PyNot(value) ==
    CASE value[1] = "bool" -> PyBool(~value[2])
      [] value[1] = "int" -> PyBool(value[2] = 0)
      [] value[1] = "str" -> PyBool(value[2] = "")
      [] OTHER -> PyBool(value[1] = "none")

\* '{}'.format(value) of a number: its decimal text.
Format(value) == ToString(value[2])

\* ------------------------------------------------------------ identifiers

TheId == <<"a">>

\* name.startswith('_') -> '$' + name[1:]
DollarName(name) ==
    IF Len(name) > 0 /\ Head(name) = "_" THEN <<"$">> \o Tail(name) ELSE name

\* Device.clean_id: one leading 'device.' is cut.
DeviceCleanId(device_id) ==
    IF Len(device_id) > 0 /\ Head(device_id) = "device." THEN Tail(device_id) ELSE device_id

\* Structure.clean_id: one leading 'structure.' is cut.
StructureCleanId(structure_id) ==
    IF Len(structure_id) > 0 /\ Head(structure_id) = "structure." THEN Tail(structure_id)
    ELSE structure_id

\* The identifiers a caller passes: an id as the status document gives it,
\* bare (the keys of its sections) or with the prefix of its kind (the
\* 'link' section, a user's 'structures', a structure's 'devices').
UserIdInputs == {TheId}
DeviceIdInputs == {TheId, <<"device.">> \o TheId}
StructureIdInputs == {TheId, <<"structure.">> \o TheId}

\* ------------------------------------------------------------ the status document

KVersion == <<"$", "version">>
KFanMode == <<"fan_mode">>
KHumidity == <<"current_humidity">>
KTargetTemperature == <<"target_temperature">>
KCurrentTemperature == <<"current_temperature">>
KAway == <<"away">>
KName == <<"name">>
KStructure == <<"structure">>

FanModes == {"auto", "on"}
Versions == 1..MaxVersion

\* One thermostat's entry of the 'device' section. Its '$version' is 0: a
\* key the shared section has too, with a falsy value.
DeviceEntry(fan) ==
    (KFanMode :> PyStr(fan)) @@ (KVersion :> PyInt(0)) @@ (KHumidity :> PyInt(45))

\* One thermostat's entry of the 'shared' section.
SharedEntry(version) ==
    (KTargetTemperature :> PyInt(20)) @@ (KVersion :> PyInt(version))
        @@ (KCurrentTemperature :> PyInt(19))

\* One structure's entry of the 'structure' section.
StructureEntry(away, version) ==
    (KAway :> PyBool(away)) @@ (KVersion :> PyInt(version))

\* One user's entry of the 'user' section.
UserEntry == (KName :> PyStr("jo"))

\* A section: a dict from id to entry, holding TheId or nothing.
Sections(entries) == {EmptyDict} \cup {(TheId :> e) : e \in entries}

\* The 'link' section the service sends with a 'device' section: each
\* device's structure, as a prefixed id.
LinkFor(device) ==
    [d \in DOMAIN device |-> (KStructure :> (<<"structure.">> \o TheId))]

\* The documents GET /v2/mobile/user.<id> may answer with.
Snapshots ==
    { [device |-> d, shared |-> s, structure |-> t, user |-> u, link |-> LinkFor(d)] :
        d \in Sections({DeviceEntry(f) : f \in FanModes}),
        s \in Sections({SharedEntry(v) : v \in Versions}),
        t \in Sections({StructureEntry(a, v) : a \in BOOLEAN, v \in Versions}),
        u \in Sections({UserEntry}) }

\* The value of `status` before the first update_status (the attribute is
\* not set then; `attrs` says so).
NoStatus ==
    [device |-> EmptyDict, shared |-> EmptyDict, structure |-> EmptyDict,
     user |-> EmptyDict, link |-> EmptyDict]

\* ------------------------------------------------------------ state

VARIABLES
    headers,      \* Connection.headers: header name -> value
    attrs,        \* the attributes login has set on the connection
    status,       \* Connection.status: the last fetched document
    _users,       \* Connection._users: user id -> User
    _devices,     \* Connection._devices: device id -> Device
    _structures,  \* Connection._structures: structure id -> Structure
    instances,    \* every view whose __init__ has returned
    last          \* the last call: what it was given, raised, returned and sent

vars == <<headers, attrs, status, _users, _devices, _structures, instances, last>>

\* ------------------------------------------------------------ calls and their outcomes

NoRequests == <<>>

\* What a call did: the exception it raised ("" for none) with its message,
\* the value it returned, and the HTTP requests it sent.
Outcome(exc, msg, ret, sent) == [exc |-> exc, msg |-> msg, ret |-> ret, sent |-> sent]
Returns(ret, sent) == Outcome("", <<>>, ret, sent)
Raises(exc, msg, sent) == Outcome(exc, msg, PyNone, sent)

\* A call as `last` records it; resp is what the service answered (PyNone
\* when the call got no answer).
Call(op, target, arg, resp, outcome) ==
    [op |-> op, target |-> target, arg |-> arg, resp |-> resp, exc |-> outcome.exc,
     msg |-> outcome.msg, ret |-> outcome.ret, sent |-> outcome.sent]

\* An HTTP request.
Request(method, path, body, hdrs) ==
    [method |-> method, path |-> path, body |-> body, headers |-> hdrs]

\* json.dumps(data)
JsonDumps(data) == <<"json", data>>
\* data passed as a dict: requests form-encodes it.
FormEncode(data) == <<"form", data>>

\* The responses the service may give to a write.
Responses ==
    { [status_code |-> 200, text |-> "ok"],
      [status_code |-> 201, text |-> "created"],
      [status_code |-> 500, text |-> "boom"] }

\* ------------------------------------------------------------ Connection

InitialHeaders ==
    ("User-Agent" :> "Nest/1.1.0.10 CFNetwork/548.0.4") @@ ("Accept-Language" :> "en-us")

LoginHeaders ==
    ("Authorization" :> "Basic token") @@ ("X-nl-user-id" :> "uid")
        @@ ("X-nl-protocol-version" :> "1")

LoginAttrs == {"transport_url", "access_token", "userid"}

Init ==
    /\ headers = InitialHeaders
    /\ attrs = {}
    /\ status = NoStatus
    /\ _users = EmptyDict
    /\ _devices = EmptyDict
    /\ _structures = EmptyDict
    /\ instances = {}
    /\ last = Call("Connection", <<>>, PyNone, PyNone, Returns(PyNone, NoRequests))

\* A refresh that keeps the entries the new document lacks.
FetchedMerged(doc) ==
    [section \in DOMAIN doc |-> doc[section] @@ status[section]]

\* The document update_status stores: r.json(), whole.
Fetched(doc) == doc

\* Connection.update_status
update_status ==
    IF "transport_url" \notin attrs
    THEN /\ last' = Call("update_status", <<>>, PyNone, PyNone,
                         Raises("AttributeError", <<>>, NoRequests))
         /\ UNCHANGED <<headers, attrs, status, _users, _devices, _structures, instances>>
    ELSE \E doc \in Snapshots :
         /\ status' = Fetched(doc)
         /\ attrs' = attrs \cup {"status"}
         /\ last' = Call("update_status", <<>>, PyNone, doc,
                         Returns(PyNone,
                                 <<Request("GET", <<"/v2/mobile/user.", "uid">>,
                                           PyNone, headers)>>))
         /\ UNCHANGED <<headers, _users, _devices, _structures, instances>>

\* Connection.login, the update_status that ends it included.
login ==
    /\ \E doc \in Snapshots :
         /\ headers' = LoginHeaders @@ headers
         /\ attrs' = attrs \cup LoginAttrs \cup {"status"}
         /\ status' = Fetched(doc)
         /\ last' = Call("login", <<>>, PyNone, doc,
                         Returns(PyNone,
                                 <<Request("POST", <<"/user/login">>,
                                           FormEncode(("username" :> PyStr("u"))
                                                        @@ ("password" :> PyStr("p"))),
                                           headers),
                                   Request("GET", <<"/v2/mobile/user.", "uid">>,
                                           PyNone, headers')>>))
         /\ UNCHANGED <<_users, _devices, _structures, instances>>

\* ------------------------------------------------------------ views: lookup and construction

\* The three identity caches, passed through a lookup and handed back.
Caches == [users |-> _users, devices |-> _devices, structures |-> _structures]

\* What a lookup or a construction gives: the exception ("" for none), the
\* value returned and the caches as it leaves them.
Result(exc, ret, c) == [exc |-> exc, ret |-> ret, c |-> c]

\* The views a cache holds.
Registered(cache) == {cache[k] : k \in DOMAIN cache}

\* A new object: told apart from every view made before it for that id.
NewView(class, id) ==
    PyObj(class, id,
          1 + Cardinality({o \in instances : o[2].class = class /\ o[2].id = id}))

\* `user_id in connection._users`, as User.__init__ asks it
UserIsDuplicate(c, user_id) == user_id \in DOMAIN c.users

\* User.__init__
UserInit(c, user_id) ==
    IF UserIsDuplicate(c, user_id)
    THEN Result("RuntimeError", PyNone, c)
    ELSE LET self == NewView("User", user_id)
         IN Result("", self, [c EXCEPT !.users = (user_id :> self) @@ c.users])

\* `user_id in connection._users`, as User.get asks it
UserIsCached(c, user_id) == user_id \in DOMAIN c.users

\* User.get
UserGet(c, user_id) ==
    IF UserIsCached(c, user_id)
    THEN Result("", c.users[user_id], c)
    ELSE UserInit(c, user_id)

\* A constructor without the duplicate test.
DeviceIsDuplicateNever(c, id) == FALSE

\* `self.device_id in self.connection._devices`, as Device.__init__ asks it
DeviceIsDuplicate(c, id) == id \in DOMAIN c.devices

\* Device.__init__
DeviceInit(c, device_id) ==
    LET id == DeviceCleanId(device_id)
    IN  IF DeviceIsDuplicate(c, id) THEN Result("RuntimeError", PyNone, c)
        ELSE IF "status" \notin attrs THEN Result("AttributeError", PyNone, c)
        ELSE IF id \notin DOMAIN status.device THEN Result("RuntimeError", PyNone, c)
        ELSE IF id \notin DOMAIN status.shared THEN Result("RuntimeError", PyNone, c)
        ELSE LET self == NewView("Device", id)
             IN Result("", self, [c EXCEPT !.devices = (id :> self) @@ c.devices])

\* A lookup that never finds the cached view.
DeviceIsCachedNever(c, id) == FALSE

\* `device_id in connection._devices`, as Device.get asks it
DeviceIsCached(c, id) == id \in DOMAIN c.devices

\* Device.get
DeviceGet(c, device_id) ==
    LET id == DeviceCleanId(device_id)
    IN  IF DeviceIsCached(c, id)
        THEN Result("", c.devices[id], c)
        ELSE DeviceInit(c, id)

\* `self.structure_id in self.connection._structures`, as Structure.__init__ asks it
StructureIsDuplicate(c, id) == id \in DOMAIN c.structures

\* Structure.__init__
StructureInit(c, structure_id) ==
    LET id == StructureCleanId(structure_id)
    IN  IF "status" \notin attrs THEN Result("AttributeError", PyNone, c)
        ELSE IF id \notin DOMAIN status.structure THEN Result("RuntimeError", PyNone, c)
        ELSE IF StructureIsDuplicate(c, id) THEN Result("RuntimeError", PyNone, c)
        ELSE LET self == NewView("Structure", id)
             IN Result("", self, [c EXCEPT !.structures = (id :> self) @@ c.structures])

\* `structure_id in connection._structures`, as Structure.get asks it
StructureIsCached(c, id) == id \in DOMAIN c.structures

\* Structure.get
StructureGet(c, structure_id) ==
    LET id == StructureCleanId(structure_id)
    IN  IF StructureIsCached(c, id)
        THEN Result("", c.structures[id], c)
        ELSE StructureInit(c, id)

\* A lookup or construction as a step: the caches it leaves, the views it
\* made, and the call recorded.
Finish(op, target, r) ==
    /\ _users' = r.c.users
    /\ _devices' = r.c.devices
    /\ _structures' = r.c.structures
    /\ instances' = instances \cup Registered(r.c.users) \cup Registered(r.c.devices)
                        \cup Registered(r.c.structures)
    /\ last' = Call(op, target, PyNone, PyNone, Outcome(r.exc, <<>>, r.ret, NoRequests))
    /\ UNCHANGED <<headers, attrs, status>>

User_get == \E user_id \in UserIdInputs : Finish("User.get", user_id, UserGet(Caches, user_id))
User_new == \E user_id \in UserIdInputs : Finish("User", user_id, UserInit(Caches, user_id))
Device_get ==
    \E device_id \in DeviceIdInputs :
        Finish("Device.get", device_id, DeviceGet(Caches, device_id))
Device_new ==
    \E device_id \in DeviceIdInputs :
        Finish("Device", device_id, DeviceInit(Caches, device_id))
Structure_get ==
    \E structure_id \in StructureIdInputs :
        Finish("Structure.get", structure_id, StructureGet(Caches, structure_id))
Structure_new ==
    \E structure_id \in StructureIdInputs :
        Finish("Structure", structure_id, StructureInit(Caches, structure_id))

\* ------------------------------------------------------------ Connection's mappings

\* d[key]: the value, or KeyError.
Item(d, key) ==
    IF key \in DOMAIN d THEN Returns(d[key], NoRequests)
    ELSE Raises("KeyError", <<>>, NoRequests)

\* {device_id: Device.get(self, device_id) for device_id in ids}
RECURSIVE DeviceGetEach(_, _)
DeviceGetEach(c, ids) ==
    IF ids = {} THEN Result("", EmptyDict, c)
    ELSE LET id == CHOOSE i \in ids : TRUE
             r == DeviceGet(c, id)
         IN  IF r.exc # "" THEN r
             ELSE LET rest == DeviceGetEach(r.c, ids \ {id})
                  IN  IF rest.exc # "" THEN rest
                      ELSE Result("", (id :> r.ret) @@ rest.ret, rest.c)

\* {user_id: User.get(self, user_id) for user_id in ids}
RECURSIVE UserGetEach(_, _)
UserGetEach(c, ids) ==
    IF ids = {} THEN Result("", EmptyDict, c)
    ELSE LET id == CHOOSE i \in ids : TRUE
             r == UserGet(c, id)
         IN  IF r.exc # "" THEN r
             ELSE LET rest == UserGetEach(r.c, ids \ {id})
                  IN  IF rest.exc # "" THEN rest
                      ELSE Result("", (id :> r.ret) @@ rest.ret, rest.c)

\* {structure_id: Structure.get(self, structure_id) for structure_id in ids}
RECURSIVE StructureGetEach(_, _)
StructureGetEach(c, ids) ==
    IF ids = {} THEN Result("", EmptyDict, c)
    ELSE LET id == CHOOSE i \in ids : TRUE
             r == StructureGet(c, id)
         IN  IF r.exc # "" THEN r
             ELSE LET rest == StructureGetEach(r.c, ids \ {id})
                  IN  IF rest.exc # "" THEN rest
                      ELSE Result("", (id :> r.ret) @@ rest.ret, rest.c)

\* [(Device.get(self, device_id), Structure.get(self, data['structure']))
\*  for device_id, data in link.items()]
RECURSIVE LinkPairs(_, _, _)
LinkPairs(c, link, ids) ==
    IF ids = {} THEN Result("", {}, c)
    ELSE LET id == CHOOSE i \in ids : TRUE
             d == DeviceGet(c, id)
         IN  IF d.exc # "" THEN d
             ELSE LET t == StructureGet(d.c, link[id][KStructure])
                  IN  IF t.exc # "" THEN t
                      ELSE LET rest == LinkPairs(t.c, link, ids \ {id})
                           IN  IF rest.exc # "" THEN rest
                               ELSE Result("", {<<d.ret, t.ret>>} \cup rest.ret, rest.c)

\* Connection.devices
ConnectionDevices(c) ==
    IF "status" \notin attrs THEN Result("AttributeError", PyNone, c)
    ELSE DeviceGetEach(c, DOMAIN status.device)

\* Connection.links
ConnectionLinks(c) ==
    IF "status" \notin attrs THEN Result("AttributeError", PyNone, c)
    ELSE LinkPairs(c, status.link, DOMAIN status.link)

\* Connection.users
ConnectionUsers(c) ==
    IF "status" \notin attrs THEN Result("AttributeError", PyNone, c)
    ELSE UserGetEach(c, DOMAIN status.user)

\* Connection.structures
ConnectionStructures(c) ==
    LET links == ConnectionLinks(c)
    IN  IF links.exc # "" THEN links
        ELSE StructureGetEach(links.c, {pair[2][2].id : pair \in links.ret})

devices == Finish("Connection.devices", <<>>, ConnectionDevices(Caches))
links == Finish("Connection.links", <<>>, ConnectionLinks(Caches))
users == Finish("Connection.users", <<>>, ConnectionUsers(Caches))
structures == Finish("Connection.structures", <<>>, ConnectionStructures(Caches))

\* ------------------------------------------------------------ reads through a view

\* User.user
UserSection(user_id) == Item(status.user, user_id)

\* User.__getattr__. Before the first update_status the `user` property
\* raises AttributeError, which sends Python back into __getattr__('user')
\* and so on until the interpreter's recursion limit.
UserGetattr(user_id, name) ==
    LET n == DollarName(name)
        section == UserSection(user_id)
    IN  IF "status" \notin attrs THEN Raises("RecursionError", <<>>, NoRequests)
        ELSE IF section.exc # "" THEN section
        ELSE IF n \in DOMAIN section.ret THEN Returns(section.ret[n], NoRequests)
        ELSE Raises("AttributeError", <<>>, NoRequests)

\* Device.device
DeviceSection(device_id) == Item(status.device, device_id)

\* Device.shared
SharedSection(device_id) == Item(status.shared, device_id)

\* Device.__getattr__
DeviceGetattr(device_id, name) ==
    LET n == DollarName(name)
        device == DeviceSection(device_id)
        shared == SharedSection(device_id)
    IN  IF device.exc # "" THEN device
        ELSE IF n \in DOMAIN device.ret THEN Returns(device.ret[n], NoRequests)
        ELSE IF shared.exc # "" THEN shared
        ELSE IF n \in DOMAIN shared.ret THEN Returns(shared.ret[n], NoRequests)
        ELSE Raises("AttributeError", <<>>, NoRequests)

\* Device.fan_mode (getter)
FanModeGet(device_id) ==
    LET device == DeviceSection(device_id)
    IN  IF device.exc # "" THEN device ELSE Item(device.ret, KFanMode)

\* Device.target_temperature (getter)
TargetTemperatureGet(device_id) ==
    LET shared == SharedSection(device_id)
    IN  IF shared.exc # "" THEN shared ELSE Item(shared.ret, KTargetTemperature)

\* Structure.structure
StructureSection(structure_id) == Item(status.structure, structure_id)

\* Structure.__getattr__
StructureGetattr(structure_id, name) ==
    LET n == DollarName(name)
        structure == StructureSection(structure_id)
    IN  IF structure.exc # "" THEN structure
        ELSE IF n \in DOMAIN structure.ret THEN Returns(structure.ret[n], NoRequests)
        ELSE Raises("AttributeError", <<>>, NoRequests)

\* Structure.away (getter)
AwayGet(structure_id) ==
    LET structure == StructureSection(structure_id)
    IN  IF structure.exc # "" THEN structure ELSE Item(structure.ret, KAway)

\* The attribute names a caller asks for.
UserAttrNames == {<<"name">>, <<"nope">>}
DeviceAttrNames ==
    {<<"_", "version">>, <<"current_humidity">>, <<"current_temperature">>, <<"nope">>}
StructureAttrNames == {<<"_", "version">>, <<"nope">>}

\* A read as a step.
Read(op, target, arg, outcome) ==
    /\ last' = Call(op, target, arg, PyNone, outcome)
    /\ UNCHANGED <<headers, attrs, status, _users, _devices, _structures, instances>>

User_getattr ==
    \E user_id \in DOMAIN _users, name \in UserAttrNames :
        Read("User.__getattr__", user_id, name, UserGetattr(user_id, name))
Device_getattr ==
    \E device_id \in DOMAIN _devices, name \in DeviceAttrNames :
        Read("Device.__getattr__", device_id, name, DeviceGetattr(device_id, name))
Device_fan_mode ==
    \E device_id \in DOMAIN _devices :
        Read("Device.fan_mode", device_id, PyNone, FanModeGet(device_id))
Device_target_temperature ==
    \E device_id \in DOMAIN _devices :
        Read("Device.target_temperature", device_id, PyNone, TargetTemperatureGet(device_id))
Structure_getattr ==
    \E structure_id \in DOMAIN _structures, name \in StructureAttrNames :
        Read("Structure.__getattr__", structure_id, name,
             StructureGetattr(structure_id, name))
Structure_away ==
    \E structure_id \in DOMAIN _structures :
        Read("Structure.away", structure_id, PyNone, AwayGet(structure_id))

\* ------------------------------------------------------------ writes through a view

\* What a setter did: its outcome, and the header dict it built for its
\* request (the connection's own when it built none).
Written(outcome, built) == [out |-> outcome, built |-> built]

\* A setter that fills in the connection's own dict instead of a copy.
ConnectionHeadersAliased(built) == built

\* headers = self.connection.headers.copy(): the connection's header set
\* after the setter has filled in the dict it built.
ConnectionHeadersAfter(built) == headers

\* A test that takes every answer below 400 for a success.
IsFailureFrom400(r) == r.status_code >= 400

\* r.status_code != 200
IsFailure(r) == r.status_code # 200

\* 'Could not set ...: "{}"'.format(r.text)
FailureMessage(what, r) == <<what, r.text, "\"">>

\* A validation that lets every string through.
IsFanModeAnyString(value) == value[1] = "str"

\* The values `value not in ['auto', 'on']` lets through.
IsFanMode(value) == value \in {PyStr("auto"), PyStr("on")}

\* Device.fan_mode (setter)
FanModeSet(device_id, value, r) ==
    IF ~IsFanMode(value)
    THEN Written(Raises("ValueError", <<"fan mode must be \"auto\" or \"on\"">>, NoRequests),
                 headers)
    ELSE LET data == (KFanMode :> value)
             built == ("Content-Type" :> "application/json") @@ headers
             sent == <<Request("POST", <<"/v2/put/device.">> \o device_id,
                               JsonDumps(data), built)>>
         IN  IF IsFailure(r)
             THEN Written(Raises("RuntimeError",
                                 FailureMessage("Could not set the fan mode: \"", r), sent),
                          built)
             ELSE Written(Returns(PyNone, sent), built)

\* A table that sends both modes to 'on'.
OtherFanModeStuck(current) ==
    Item((PyStr("auto") :> PyStr("on")) @@ (PyStr("on") :> PyStr("on")), current)

\* {'auto': 'on', 'on': 'auto'}[current]
OtherFanMode(current) ==
    Item((PyStr("auto") :> PyStr("on")) @@ (PyStr("on") :> PyStr("auto")), current)

\* Device.toggle_fan_mode
ToggleFanMode(device_id, r) ==
    LET current == FanModeGet(device_id)
        other == OtherFanMode(current.ret)
    IN  IF current.exc # "" THEN Written(current, headers)
        ELSE IF other.exc # "" THEN Written(other, headers)
        ELSE FanModeSet(device_id, other.ret, r)

\* A setter that reads the version of the device section's entry.
TargetTemperatureBaseOfDevice(device_id) ==
    LET device == DeviceSection(device_id)
    IN  IF device.exc # "" THEN device ELSE Item(device.ret, KVersion)

\* The version Device.target_temperature's setter reads for its header.
TargetTemperatureBase(device_id) ==
    LET shared == SharedSection(device_id)
    IN  IF shared.exc # "" THEN shared ELSE Item(shared.ret, KVersion)

\* Device.target_temperature (setter)
TargetTemperatureSet(device_id, value, r) ==
    LET data == (<<"target_change_pending">> :> PyBool(TRUE))
                    @@ (KTargetTemperature :> value)
        version == TargetTemperatureBase(device_id)
    IN  IF version.exc # "" THEN Written(version, headers)
        ELSE LET built == ("Content-Type" :> "application/json")
                              @@ ("X-nl-base-version" :> Format(version.ret)) @@ headers
                 sent == <<Request("POST", <<"/v2/put/shared.">> \o device_id,
                                   JsonDumps(data), built)>>
             IN  IF IsFailure(r)
                 THEN Written(Raises("RuntimeError",
                                     FailureMessage("Could not set the target temperature: \"",
                                                    r), sent),
                              built)
                 ELSE Written(Returns(PyNone, sent), built)

\* The dict Structure.away's setter posts. Line 301 closes the literal after
\* 'away'; the two lines that follow it (away_timestamp, away_setter) are
\* outside every statement and add nothing to it.
AwayData(value) == (KAway :> value)

\* The version Structure.away's setter reads for its header.
AwayBase(structure_id) ==
    LET structure == StructureSection(structure_id)
    IN  IF structure.exc # "" THEN structure ELSE Item(structure.ret, KVersion)

\* Structure.away (setter)
AwaySet(structure_id, value, r) ==
    IF ~IsBool(value)
    THEN Written(Raises("ValueError", <<"Away can only be set to True or False">>,
                        NoRequests),
                 headers)
    ELSE LET data == AwayData(value)
             version == AwayBase(structure_id)
         IN  IF version.exc # "" THEN Written(version, headers)
             ELSE LET built == ("Content-Type" :> "application/json")
                                   @@ ("X-nl-base-version" :> Format(version.ret))
                                   @@ headers
                      sent == <<Request("POST", <<"/v2/put/structure.">> \o structure_id,
                                        FormEncode(data), built)>>
                  IN  IF IsFailure(r)
                      THEN Written(Raises("RuntimeError",
                                          FailureMessage("Could not set away: \"", r), sent),
                                   built)
                      ELSE Written(Returns(PyNone, sent), built)

\* not self.away
OtherAway(current) == PyNot(current)

\* Structure.toggle_away
ToggleAway(structure_id, r) ==
    LET current == AwayGet(structure_id)
    IN  IF current.exc # "" THEN Written(current, headers)
        ELSE AwaySet(structure_id, OtherAway(current.ret), r)

\* The values a caller assigns.
FanModeInputs == {PyStr("auto"), PyStr("on"), PyStr("off"), PyNone}
TemperatureInputs == {PyInt(21)}
AwayInputs ==
    {PyBool(TRUE), PyBool(FALSE), PyInt(0), PyInt(1), PyStr("True"), PyNone}

\* A write as a step; the answer is recorded when a request went out.
Write(op, target, arg, r, w) ==
    /\ last' = Call(op, target, arg, IF w.out.sent = NoRequests THEN PyNone ELSE r, w.out)
    /\ headers' = ConnectionHeadersAfter(w.built)
    /\ UNCHANGED <<attrs, status, _users, _devices, _structures, instances>>

Device_set_fan_mode ==
    \E device_id \in DOMAIN _devices, value \in FanModeInputs, r \in Responses :
        Write("Device.fan_mode=", device_id, value, r, FanModeSet(device_id, value, r))
Device_toggle_fan_mode ==
    \E device_id \in DOMAIN _devices, r \in Responses :
        Write("Device.toggle_fan_mode", device_id, PyNone, r, ToggleFanMode(device_id, r))
Device_set_target_temperature ==
    \E device_id \in DOMAIN _devices, value \in TemperatureInputs, r \in Responses :
        Write("Device.target_temperature=", device_id, value, r,
              TargetTemperatureSet(device_id, value, r))
Structure_set_away ==
    \E structure_id \in DOMAIN _structures, value \in AwayInputs, r \in Responses :
        Write("Structure.away=", structure_id, value, r, AwaySet(structure_id, value, r))
Structure_toggle_away ==
    \E structure_id \in DOMAIN _structures, r \in Responses :
        Write("Structure.toggle_away", structure_id, PyNone, r, ToggleAway(structure_id, r))

Next ==
    \/ login
    \/ update_status
    \/ User_get
    \/ User_new
    \/ Device_get
    \/ Device_new
    \/ Structure_get
    \/ Structure_new
    \/ devices
    \/ links
    \/ users
    \/ structures
    \/ User_getattr
    \/ Device_getattr
    \/ Device_fan_mode
    \/ Device_target_temperature
    \/ Structure_getattr
    \/ Structure_away
    \/ Device_set_fan_mode
    \/ Device_toggle_fan_mode
    \/ Device_set_target_temperature
    \/ Structure_set_away
    \/ Structure_toggle_away

Spec == Init /\ [][Next]_vars

\* ------------------------------------------------------------ properties

FanModeWrites == {"Device.fan_mode=", "Device.toggle_fan_mode"}
TemperatureWrites == {"Device.target_temperature="}
AwayWrites == {"Structure.away=", "Structure.toggle_away"}
WriteOps == FanModeWrites \cup TemperatureWrites \cup AwayWrites
Refreshes == {"login", "update_status"}

\* The dict a posted body encodes.
Posted(request) == request.body[2]

\* C1: assigning fan_mode a value other than 'auto' and 'on' raises
\* ValueError and sends nothing; assigning 'auto' or 'on' sends exactly one
\* request, to the device's put URL, whose body is {fan_mode: value}.
C1_FanModeChecked ==
    last.op = "Device.fan_mode=" =>
        IF last.arg \in {PyStr("auto"), PyStr("on")}
        THEN /\ Len(last.sent) = 1
             /\ last.sent[1].method = "POST"
             /\ last.sent[1].path = <<"/v2/put/device.">> \o last.target
             /\ DOMAIN Posted(last.sent[1]) = {KFanMode}
             /\ Posted(last.sent[1])[KFanMode] = last.arg
        ELSE /\ last.exc = "ValueError"
             /\ last.sent = NoRequests

\* C1's case: a value outside {'auto', 'on'} was assigned and rejected.
C1_Witness ==
    /\ last.op = "Device.fan_mode="
    /\ last.arg = PyStr("off")
    /\ last.exc = "ValueError"

\* C2: assigning away a value that is not a bool (0, 1, a string, None)
\* raises ValueError and sends nothing; assigning a bool sends exactly one
\* request whose body carries away = value and away_setter = 0.
C2_AwayChecked ==
    last.op = "Structure.away=" =>
        IF last.arg[1] = "bool"
        THEN /\ Len(last.sent) = 1
             /\ last.sent[1].path = <<"/v2/put/structure.">> \o last.target
             /\ KAway \in DOMAIN Posted(last.sent[1])
             /\ Posted(last.sent[1])[KAway] = last.arg
             /\ <<"away_setter">> \in DOMAIN Posted(last.sent[1])
             /\ Posted(last.sent[1])[<<"away_setter">>] = PyInt(0)
        ELSE /\ last.exc = "ValueError"
             /\ last.sent = NoRequests

\* C3: a write sends at most one request; when it sent one, an answer of
\* 200 makes it return None without raising, and any other answer makes it
\* raise RuntimeError with the answer's text in the message.
C3_WriteOutcome ==
    last.op \in WriteOps =>
        /\ Len(last.sent) <= 1
        /\ Len(last.sent) = 1 =>
              IF last.resp.status_code = 200
              THEN last.exc = "" /\ last.ret = PyNone
              ELSE /\ last.exc = "RuntimeError"
                   /\ \E i \in DOMAIN last.msg : last.msg[i] = last.resp.text

\* C3's case: a write was answered with something other than 200 or 5xx.
C3_Witness ==
    /\ last.op \in WriteOps
    /\ Len(last.sent) = 1
    /\ last.resp.status_code = 201
    /\ last.exc = "RuntimeError"
\* The id a cache files a looked-up id under.
CacheKey(op, target) ==
    CASE op \in {"Device.get", "Device"} -> DeviceCleanId(target)
      [] op \in {"Structure.get", "Structure"} -> StructureCleanId(target)
      [] OTHER -> target

\* The cache a lookup or construction works on, before and after the step.
CacheOf(op) ==
    CASE op \in {"Device.get", "Device", "Connection.devices"} -> _devices
      [] op \in {"Structure.get", "Structure", "Connection.structures"} -> _structures
      [] OTHER -> _users
CacheOfNext(op) ==
    CASE op \in {"Device.get", "Device", "Connection.devices"} -> _devices'
      [] op \in {"Structure.get", "Structure", "Connection.structures"} -> _structures'
      [] OTHER -> _users'

Lookups == {"User.get", "Device.get", "Structure.get"}
Mappings == {"Connection.users", "Connection.devices", "Connection.structures"}
Constructions == {"User", "Device", "Structure"}

\* A cache keeps every entry it has, with the view it has.
Keeps(cache, cacheNext) ==
    \A id \in DOMAIN cache : id \in DOMAIN cacheNext /\ cacheNext[id] = cache[id]

C4_Step ==
    /\ Keeps(_users, _users') /\ Keeps(_devices, _devices')
    /\ Keeps(_structures, _structures')
    /\ last'.op \in Lookups =>
          LET id == CacheKey(last'.op, last'.target)
          IN  /\ id \in DOMAIN CacheOf(last'.op) =>
                    last'.exc = "" /\ last'.ret = CacheOf(last'.op)[id]
              /\ last'.exc = "" =>
                    id \in DOMAIN CacheOfNext(last'.op)
                        /\ last'.ret = CacheOfNext(last'.op)[id]
    /\ (last'.op \in Mappings /\ last'.exc = "") =>
          \A id \in DOMAIN last'.ret :
              /\ id \in DOMAIN CacheOfNext(last'.op)
              /\ last'.ret[id] = CacheOfNext(last'.op)[id]
              /\ id \in DOMAIN CacheOf(last'.op) => last'.ret[id] = CacheOf(last'.op)[id]

InstancesOf(class, id) == {o \in instances : o[2].class = class /\ o[2].id = id}

C5_OnePerId ==
    /\ \A o \in instances : Cardinality(InstancesOf(o[2].class, o[2].id)) = 1
    /\ \A id \in DOMAIN _users : _users[id] \in InstancesOf("User", id)
    /\ \A id \in DOMAIN _devices : _devices[id] \in InstancesOf("Device", id)
    /\ \A id \in DOMAIN _structures : _structures[id] \in InstancesOf("Structure", id)

C5_Step ==
    last'.op \in Constructions =>
        LET id == CacheKey(last'.op, last'.target)
        IN  /\ id \in DOMAIN CacheOf(last'.op) => last'.exc = "RuntimeError"
            /\ (last'.op = "Device" /\ (id \notin DOMAIN status.device
                                          \/ id \notin DOMAIN status.shared)) =>
                   last'.exc # ""
            /\ (last'.op = "Structure" /\ id \notin DOMAIN status.structure) =>
                   last'.exc # ""
            /\ last'.exc # "" =>
                   UNCHANGED <<_users, _devices, _structures, instances>>

\* C5: no two views of one class are ever made for one id, and each cache
\* entry holds the view made for its id; constructing a view for a cached
\* id raises RuntimeError, constructing a Device or Structure for an id the
\* document lacks raises, and a construction that raises leaves the caches
\* as they were.
C5_OneInstance == [](C5_OnePerId) /\ [][C5_Step]_vars

\* C5's case: Device(...) was called for an id that is cached and that the
\* document has in both sections, and raised.
C5_Witness ==
    /\ last.op = "Device"
    /\ last.exc = "RuntimeError"
    /\ TheId \in DOMAIN status.device
    /\ TheId \in DOMAIN status.shared
    /\ DeviceCleanId(last.target) = TheId
    /\ _devices[TheId] = PyObj("Device", TheId, 1)

C7_BaseVersion ==
    Len(last.sent) = 1 =>
        /\ last.op \in TemperatureWrites =>
              /\ "X-nl-base-version" \in DOMAIN last.sent[1].headers
              /\ last.sent[1].headers["X-nl-base-version"]
                    = ToString(status.shared[last.target][KVersion][2])
        /\ last.op \in AwayWrites =>
              /\ "X-nl-base-version" \in DOMAIN last.sent[1].headers
              /\ last.sent[1].headers["X-nl-base-version"]
                    = ToString(status.structure[last.target][KVersion][2])
        /\ last.op \in FanModeWrites =>
              "X-nl-base-version" \notin DOMAIN last.sent[1].headers

\* C7's case: a target temperature was written under a document whose
\* shared version is not the first one.
C7_Witness ==
    /\ last.op \in TemperatureWrites
    /\ Len(last.sent) = 1
    /\ status.shared[last.target][KVersion] = PyInt(MaxVersion)
    /\ last.sent[1].headers["X-nl-base-version"] = ToString(MaxVersion)
\* The value a section holds for a view's key, if the document has both.
HasItem(section, id, key) == id \in DOMAIN section /\ key \in DOMAIN section[id]

C8_Reads ==
    /\ (last.op \in Refreshes /\ last.exc = "") => status = last.resp
    /\ last.op = "Device.fan_mode" =>
          IF HasItem(status.device, last.target, KFanMode)
          THEN last.exc = "" /\ last.ret = status.device[last.target][KFanMode]
          ELSE last.exc # ""
    /\ last.op = "Device.target_temperature" =>
          IF HasItem(status.shared, last.target, KTargetTemperature)
          THEN last.exc = "" /\ last.ret = status.shared[last.target][KTargetTemperature]
          ELSE last.exc # ""
    /\ last.op = "Structure.away" =>
          IF HasItem(status.structure, last.target, KAway)
          THEN last.exc = "" /\ last.ret = status.structure[last.target][KAway]
          ELSE last.exc # ""
    /\ last.op = "Device.__getattr__" =>
          IF last.target \in DOMAIN status.device
          THEN last.exc = "" =>
                  \/ HasItem(status.device, last.target, DollarName(last.arg))
                        /\ last.ret = status.device[last.target][DollarName(last.arg)]
                  \/ HasItem(status.shared, last.target, DollarName(last.arg))
                        /\ last.ret = status.shared[last.target][DollarName(last.arg)]
          ELSE last.exc # ""
    /\ last.op = "Structure.__getattr__" =>
          IF HasItem(status.structure, last.target, DollarName(last.arg))
          THEN last.exc = ""
                  /\ last.ret = status.structure[last.target][DollarName(last.arg)]
          ELSE last.exc # ""
    /\ last.op = "User.__getattr__" =>
          IF HasItem(status.user, last.target, DollarName(last.arg))
          THEN last.exc = "" /\ last.ret = status.user[last.target][DollarName(last.arg)]
          ELSE last.exc # ""

C8_Step ==
    /\ last'.op \in Refreshes => UNCHANGED <<_users, _devices, _structures, instances>>
    /\ last'.op \notin Refreshes => UNCHANGED status

\* C8: after update_status the document held is the one just fetched and
\* nothing else, no other call changes it, and every read through a view
\* (made before the refresh or after) returns the value that document holds
\* and fails when the document lacks the view's entry; a refresh leaves the
\* identity caches as they were, views of ids the new document lacks
\* included.
C8_Refresh == [](C8_Reads) /\ [][C8_Step]_vars

\* C8's case: a device view made before a refresh is read after the refresh
\* dropped its entry, and the read fails.
C8_Witness ==
    /\ last.op = "Device.fan_mode"
    /\ last.target \in DOMAIN _devices
    /\ last.target \notin DOMAIN status.device
    /\ last.exc = "KeyError"

\* The keys of a view's entry in a section; none when the section lacks it.
KeysOf(section, id) == IF id \in DOMAIN section THEN DOMAIN section[id] ELSE {}

\* C9: Device.__getattr__ of a name (leading '_' read as '$') returns the
\* device-section value when the name is a key there, else the
\* shared-section value when it is a key there, else raises AttributeError;
\* User.__getattr__ and Structure.__getattr__ return their section's value
\* for a key and raise AttributeError for a name that is no key.
C9_AttributeLookup ==
    LET n == DollarName(last.arg)
    IN  /\ last.op = "Device.__getattr__" =>
              IF n \in KeysOf(status.device, last.target)
              THEN last.exc = "" /\ last.ret = status.device[last.target][n]
              ELSE IF n \in KeysOf(status.shared, last.target)
              THEN last.exc = "" /\ last.ret = status.shared[last.target][n]
              ELSE last.exc = "AttributeError"
        /\ last.op = "Structure.__getattr__" =>
              IF n \in KeysOf(status.structure, last.target)
              THEN last.exc = "" /\ last.ret = status.structure[last.target][n]
              ELSE last.exc = "AttributeError"
        /\ last.op = "User.__getattr__" =>
              IF n \in KeysOf(status.user, last.target)
              THEN last.exc = "" /\ last.ret = status.user[last.target][n]
              ELSE last.exc = "AttributeError"

Toggles == {"Device.toggle_fan_mode", "Structure.toggle_away"}

C10_Step ==
    /\ last'.op \in WriteOps =>
          UNCHANGED <<status, headers, attrs, _users, _devices, _structures, instances>>
    /\ (last.op \in Toggles /\ last'.op = last.op /\ last'.target = last.target
            /\ Len(last.sent) = 1 /\ Len(last'.sent) = 1) =>
          Posted(last'.sent[1]) = Posted(last.sent[1])
    /\ (last.op \in FanModeWrites /\ Len(last.sent) = 1 /\ last'.op = "Device.fan_mode"
            /\ last'.target = last.target /\ last'.exc = "") =>
          /\ last'.ret = status.device[last.target][KFanMode]
          /\ last.op = "Device.toggle_fan_mode" =>
                last'.ret # Posted(last.sent[1])[KFanMode]

\* C10: a write or a toggle, whether rejected, failed or answered 200,
\* leaves the document, the connection's headers and the caches as they
\* were; the fan-mode getter called after a write returns what the document
\* held before it (after a toggle, not the value sent); two toggles in a
\* row on one view send the same value.
C10_WritesChangeNothing == [][C10_Step]_vars

\* C10's case: 'on' was written and answered 200, and the document the
\* getter reads still says 'auto'.
C10_Witness ==
    /\ last.op = "Device.fan_mode="
    /\ last.arg = PyStr("on")
    /\ last.exc = ""
    /\ Len(last.sent) = 1
    /\ status.device[last.target][KFanMode] = PyStr("auto")
    /\ headers = LoginHeaders @@ InitialHeaders
====
